---- MODULE Spec2Model ----
(***************************************************************************)
(* A model of the WordPress REST API client (wordpress_client): the        *)
(* authenticators (auth.py), the error taxonomy (exceptions.py), the       *)
(* helpers (utils.py), the resource models (models/*.py) and the client    *)
(* with its request executor and resource operations (client.py).          *)
(*                                                                         *)
(* Text is a sequence of pieces; a piece is a one-character string where   *)
(* the code looks at characters (URLs, credentials) and a whole literal    *)
(* where it does not (messages).  Python and JSON values are records       *)
(* tagged with their type.                                                 *)
(***************************************************************************)
EXTENDS Integers, Sequences, FiniteSets, TLC

\* ------------------------------------------------------------------ bounds
\* Longest username / application password tried on ApplicationPasswordAuth.
MaxCredLen == 2
\* Number of tokens the token endpoint issues before it stops answering 200.
MaxIssued == 2
\* Most slashes at the end of a base URL and at the start of an endpoint.
MaxSlashes == 2
\* Number of callers that share one JWTAuth object.
MaxCallers == 2

\* ------------------------------------------------------- Python/JSON values
PyNone == [type |-> "None"]
PyStr(s) == [type |-> "str", s |-> s]
PyInt(n) == [type |-> "int", n |-> n]
PyBool(b) == [type |-> "bool", b |-> b]
PyDict(f) == [type |-> "dict", fields |-> f]
PyList(xs) == [type |-> "list", items |-> xs]

\* A mapping whose order of insertion matters (query parameters): the
\* sequence of its <<key, value>> items.
PyMapping(items) == [type |-> "mapping", items |-> items]

\* The empty mapping {} as a function.
EmptyMap == << >>

\* Python truthiness (`if x`, `not x`, `a and b`).
Truthy(v) ==
  CASE v.type = "None" -> FALSE
    [] v.type = "str" -> v.s # << >>
    [] v.type = "int" -> v.n # 0
    [] v.type = "bool" -> v.b
    [] v.type = "dict" -> DOMAIN v.fields # {}
    [] v.type = "list" -> v.items # << >>
    [] v.type = "mapping" -> v.items # << >>
    [] OTHER -> TRUE

\* isinstance(v, dict)
IsDict(v) == v.type = "dict"

\* d.get(k): the value under k, None when k is absent.
DictGet(d, k) == IF k \in DOMAIN d.fields THEN d.fields[k] ELSE PyNone

\* Decimal digits of a natural number.
RECURSIVE Digits(_)
Digits(n) ==
  LET d == <<"0", "1", "2", "3", "4", "5", "6", "7", "8", "9">>
  IN IF n < 10 THEN <<d[n + 1]>> ELSE Digits(n \div 10) \o <<d[(n % 10) + 1]>>

\* str(v) / f"{v}" of a value.
Str(v) ==
  CASE v.type = "str" -> v.s
    [] v.type = "int" -> Digits(v.n)
    [] v.type = "bool" -> IF v.b THEN <<"T", "r", "u", "e">>
                                 ELSE <<"F", "a", "l", "s", "e">>
    [] v.type = "None" -> <<"N", "o", "n", "e">>
    [] OTHER -> <<"<object>">>

\* ------------------------------------------------------------ exceptions.py
AuthenticationErrorStatus == 401
ValidationErrorStatus == 400

\* An exception object: its class, and the three attributes of the root kind.
Exc(cls, message, status_code, response) ==
  [cls |-> cls, message |-> message, status_code |-> status_code,
   response |-> response]

WordPressAPIError(message, status_code, response) ==
  Exc("WordPressAPIError", message, status_code, response)
AuthenticationError(message, status_code, response) ==
  Exc("AuthenticationError", message, status_code, response)
NotFoundError(message, status_code, response) ==
  Exc("NotFoundError", message, status_code, response)
ValidationError(message, status_code, response) ==
  Exc("ValidationError", message, status_code, response)
PermissionError(message, status_code, response) ==
  Exc("PermissionError", message, status_code, response)

\* The classes of the taxonomy: the root and its four subclasses.
TaxonomyClasses ==
  {"WordPressAPIError", "AuthenticationError", "NotFoundError",
   "ValidationError", "PermissionError"}

\* Exceptions of other libraries carry only a text.
ForeignExc(cls, text) == Exc(cls, PyStr(text), PyNone, PyNone)

\* requests.exceptions.RequestException and its subclasses.
RequestExceptionClasses ==
  {"requests.RequestException", "requests.ConnectionError",
   "requests.Timeout", "requests.HTTPError", "requests.JSONDecodeError"}

IsRequestException(e) == e.cls \in RequestExceptionClasses

\* ------------------------------------------------------------------ utils.py
\* s.rstrip('/')
RECURSIVE RStripSlash(_)
RStripSlash(s) ==
  IF s # << >> /\ s[Len(s)] = "/" THEN RStripSlash(SubSeq(s, 1, Len(s) - 1))
  ELSE s

\* s.lstrip('/')
RECURSIVE LStripSlash(_)
LStripSlash(s) ==
  IF s # << >> /\ s[1] = "/" THEN LStripSlash(Tail(s)) ELSE s

\* s.startswith(p)
StartsWith(s, p) == Len(s) >= Len(p) /\ SubSeq(s, 1, Len(p)) = p

WpJson == <<"w", "p", "-", "j", "s", "o", "n">>

\* urllib.parse.quote_plus of one character: unreserved characters stay, a
\* space becomes '+', the rest is percent-encoded.
QuoteChar(c) ==
  CASE c = " " -> <<"+">>
    [] c = "/" -> <<"%", "2", "F">>
    [] c = "&" -> <<"%", "2", "6">>
    [] c = "=" -> <<"%", "3", "D">>
    [] c = "?" -> <<"%", "3", "F">>
    [] c = "," -> <<"%", "2", "C">>
    [] c = ":" -> <<"%", "3", "A">>
    [] c = "%" -> <<"%", "2", "5">>
    [] c = "+" -> <<"%", "2", "B">>
    [] OTHER -> <<c>>

RECURSIVE QuotePlus(_)
QuotePlus(s) ==
  IF s = << >> THEN << >> ELSE QuoteChar(s[1]) \o QuotePlus(Tail(s))

\* {k: v for k, v in params.items() if v is not None}, on the items.
RECURSIVE FilterNone(_)
FilterNone(params) ==
  IF params = << >> THEN << >>
  ELSE IF params[1][2].type = "None" THEN FilterNone(Tail(params))
       ELSE <<params[1]>> \o FilterNone(Tail(params))

\* urllib.parse.urlencode
RECURSIVE UrlEncode(_)
UrlEncode(params) ==
  IF params = << >> THEN << >>
  ELSE LET kv == QuotePlus(params[1][1]) \o <<"=">> \o
                 QuotePlus(Str(params[1][2]))
       IN IF Len(params) = 1 THEN kv
          ELSE kv \o <<"&">> \o UrlEncode(Tail(params))

\* urljoin(base + "/", endpoint) for a base that ends with a slash and a
\* relative endpoint without scheme, leading slash or dot segments: the
\* endpoint is appended to the base.
UrlJoin(base, endpoint) == base \o endpoint

\* build_api_url that encodes the mapping as given, absent values included.
build_api_url_unfiltered(base_url, endpoint, params) ==
  LET base == RStripSlash(base_url)
      ep0 == LStripSlash(endpoint)
      ep == IF ~StartsWith(ep0, WpJson) THEN WpJson \o <<"/">> \o ep0 ELSE ep0
      url == UrlJoin(base \o <<"/">>, ep)
  IN IF Truthy(params) THEN url \o <<"?">> \o UrlEncode(params.items)
     ELSE url

\* build_api_url that drops every falsy value, not only None.
build_api_url_dropFalsy(base_url, endpoint, params) ==
  LET base == RStripSlash(base_url)
      ep0 == LStripSlash(endpoint)
      ep == IF ~StartsWith(ep0, WpJson) THEN WpJson \o <<"/">> \o ep0 ELSE ep0
      url == UrlJoin(base \o <<"/">>, ep)
      RECURSIVE Keep(_)
      Keep(items) ==
        IF items = << >> THEN << >>
        ELSE IF ~Truthy(items[1][2]) THEN Keep(Tail(items))
             ELSE <<items[1]>> \o Keep(Tail(items))
  IN IF Truthy(params) /\ Keep(params.items) # << >>
     THEN url \o <<"?">> \o UrlEncode(Keep(params.items))
     ELSE url

build_api_url(base_url, endpoint, params) ==
  LET base == RStripSlash(base_url)
      ep0 == LStripSlash(endpoint)
      ep == IF ~StartsWith(ep0, WpJson) THEN WpJson \o <<"/">> \o ep0 ELSE ep0
      url == UrlJoin(base \o <<"/">>, ep)
  IN IF Truthy(params)
     THEN LET filtered_params == FilterNone(params.items)
          IN IF filtered_params # << >>
             THEN url \o <<"?">> \o UrlEncode(filtered_params)
             ELSE url
     ELSE url

UnknownError == PyStr(<<"Unknown error occurred">>)

\* parse_wp_error that tries the code-and-message form first.
parse_wp_error_codeFirst(response_data) ==
  IF ~IsDict(response_data) THEN UnknownError
  ELSE IF "code" \in DOMAIN response_data.fields
          /\ "message" \in DOMAIN response_data.fields
       THEN PyStr(Str(response_data.fields["code"]) \o <<": ">> \o
                  Str(response_data.fields["message"]))
  ELSE IF "message" \in DOMAIN response_data.fields
       THEN response_data.fields["message"]
  ELSE IF "data" \in DOMAIN response_data.fields
          /\ IsDict(response_data.fields["data"])
          /\ "message" \in DOMAIN response_data.fields["data"].fields
       THEN response_data.fields["data"].fields["message"]
  ELSE UnknownError

parse_wp_error(response_data) ==
  IF ~IsDict(response_data) THEN UnknownError
  ELSE IF "message" \in DOMAIN response_data.fields
       THEN response_data.fields["message"]
  ELSE IF "code" \in DOMAIN response_data.fields
          /\ "message" \in DOMAIN response_data.fields
       THEN PyStr(Str(response_data.fields["code"]) \o <<": ">> \o
                  Str(response_data.fields["message"]))
  ELSE IF "data" \in DOMAIN response_data.fields
          /\ IsDict(response_data.fields["data"])
          /\ "message" \in DOMAIN response_data.fields["data"].fields
       THEN response_data.fields["data"].fields["message"]
  ELSE UnknownError

valid_statuses ==
  {<<"publish">>, <<"future">>, <<"draft">>, <<"pending">>, <<"private">>,
   <<"trash">>}

validate_status(status) == status.s \in valid_statuses

\* ------------------------------------------------------------ HTTP transport
\* What the network does with one request: the transport raises, or a
\* response arrives with a status code and a body.  A body is empty text,
\* text that is not JSON, or the text of a JSON value.
TransportError(e) == [arrived |-> FALSE, error |-> e]
Response(status_code, text, json) ==
  [arrived |-> TRUE, status_code |-> status_code, text |-> text, json |-> json]

EmptyText == "empty"
GarbageText == "garbage"
JsonText == "json"

\* The failure of response.json() on a body that is not JSON.  requests 2.27
\* and later raise requests.exceptions.JSONDecodeError, a RequestException;
\* earlier versions raise json.JSONDecodeError, a ValueError.  No version is
\* pinned, so the class is a choice of the installation.
JSONDecodeErrorClasses == {"requests.JSONDecodeError", "json.JSONDecodeError"}

Returned(v) == [outcome |-> "return", value |-> v]
Raised(e) == [outcome |-> "raise", exc |-> e]

\* response.json()
ResponseJson(resp, jsonErrorCls) ==
  IF resp.text = JsonText THEN Returned(resp.json)
  ELSE Raised(ForeignExc(jsonErrorCls, <<"Expecting value">>))

\* bool(response.text)
HasText(resp) == resp.text # EmptyText

\* response.raise_for_status(): an HTTPError for a 4xx or 5xx status.
HTTPErrorOf(resp) ==
  ForeignExc("requests.HTTPError",
             Digits(resp.status_code) \o <<" Error for url">>)

IsHTTPErrorStatus(status_code) == status_code >= 400 /\ status_code < 600

\* An HTTP request as it leaves the process.
HttpRequest(via, method, url, headers, json, files, timeout) ==
  [via |-> via, method |-> method, url |-> url, headers |-> headers,
   json |-> json, files |-> files, timeout |-> timeout]

\* ------------------------------------------------------------------- auth.py
\* ord(c) for the characters used in credentials.
Ord(c) ==
  CASE c = " " -> 32
    [] c = "1" -> 49
    [] c = "2" -> 50
    [] c = "3" -> 51
    [] c = "4" -> 52
    [] c = ":" -> 58
    [] c = "a" -> 97
    [] c = "b" -> 98
    [] c = "c" -> 99
    [] c = "d" -> 100
    [] c = "i" -> 105
    [] c = "m" -> 109
    [] c = "n" -> 110
    [] c = "p" -> 112
    [] c = "w" -> 119
    [] c = "e'" -> 233   \* e with an acute accent, U+00E9
    [] OTHER -> 63

\* str.encode(): UTF-8, one byte below 128 and two bytes below 2048.
RECURSIVE Utf8Encode(_)
Utf8Encode(s) ==
  IF s = << >> THEN << >>
  ELSE LET cp == Ord(s[1])
       IN (IF cp < 128 THEN <<cp>>
           ELSE <<192 + (cp \div 64), 128 + (cp % 64)>>) \o Utf8Encode(Tail(s))

B64Alphabet ==
  <<"A", "B", "C", "D", "E", "F", "G", "H", "I", "J", "K", "L", "M",
    "N", "O", "P", "Q", "R", "S", "T", "U", "V", "W", "X", "Y", "Z",
    "a", "b", "c", "d", "e", "f", "g", "h", "i", "j", "k", "l", "m",
    "n", "o", "p", "q", "r", "s", "t", "u", "v", "w", "x", "y", "z",
    "0", "1", "2", "3", "4", "5", "6", "7", "8", "9", "+", "/">>

\* base64.b64encode(bytes).decode(): three bytes make four characters, a
\* shorter last group is padded with '='.
RECURSIVE b64encode(_)
b64encode(bytes) ==
  IF bytes = << >> THEN << >>
  ELSE IF Len(bytes) = 1 THEN
    LET n == bytes[1] * 65536
    IN <<B64Alphabet[(n \div 262144) + 1],
         B64Alphabet[((n \div 4096) % 64) + 1], "=", "=">>
  ELSE IF Len(bytes) = 2 THEN
    LET n == bytes[1] * 65536 + bytes[2] * 256
    IN <<B64Alphabet[(n \div 262144) + 1],
         B64Alphabet[((n \div 4096) % 64) + 1],
         B64Alphabet[((n \div 64) % 64) + 1], "=">>
  ELSE
    LET n == bytes[1] * 65536 + bytes[2] * 256 + bytes[3]
    IN <<B64Alphabet[(n \div 262144) + 1],
         B64Alphabet[((n \div 4096) % 64) + 1],
         B64Alphabet[((n \div 64) % 64) + 1],
         B64Alphabet[(n % 64) + 1]>> \o b64encode(SubSeq(bytes, 4, Len(bytes)))

\* ApplicationPasswordAuth: the object after __init__ stored both fields.
AppAuthObject(username, app_password) ==
  [type |-> "ApplicationPasswordAuth", username |-> username, app_password |-> app_password]

\* ApplicationPasswordAuth._validate_credentials: the exception it raises,
\* or None.
_validate_credentials(self) ==
  IF ~Truthy(self.username) \/ ~Truthy(self.app_password)
  THEN Raised(AuthenticationError(
                PyStr(<<"Username and application password are required">>),
                PyInt(AuthenticationErrorStatus), PyNone))
  ELSE Returned(PyNone)

\* get_auth_headers without the separator between the two fields.
AppGetAuthHeaders_noColon(self) ==
  LET credentials == Str(self.username) \o Str(self.app_password)
      encoded == b64encode(Utf8Encode(credentials))
  IN [Authorization |-> PyStr(<<"Basic ">> \o encoded)]

\* ApplicationPasswordAuth.get_auth_headers
AppGetAuthHeaders(self) ==
  LET credentials == Str(self.username) \o <<":">> \o Str(self.app_password)
      encoded == b64encode(Utf8Encode(credentials))
  IN [Authorization |-> PyStr(<<"Basic ">> \o encoded)]

\* JWTAuth: the object's fields.
JWTAuthObject(base_url, username, password, token) ==
  [type |-> "JWTAuth", base_url |-> base_url, username |-> username,
   password |-> password, token |-> token]

TokenPath ==
  <<"/", "w", "p", "-", "j", "s", "o", "n", "/", "j", "w", "t", "-", "a",
    "u", "t", "h", "/", "v", "1", "/", "t", "o", "k", "e", "n">>

\* JWTAuth._authenticate against the answer `net` of the token endpoint: the
\* object afterwards, the outcome, and the request sent.
_authenticate(self, net, jsonErrorCls) ==
  LET req == HttpRequest("requests", "POST", self.base_url \o TokenPath,
                         EmptyMap,
                         PyDict([username |-> self.username,
                                 password |-> self.password]),
                         PyNone, PyNone)
      \* except requests.exceptions.RequestException as e
      Wrap(e) == IF IsRequestException(e)
                 THEN AuthenticationError(
                        PyStr(<<"Failed to authenticate: ">> \o Str(e.message)),
                        PyInt(AuthenticationErrorStatus), PyNone)
                 ELSE e
      json == ResponseJson(net, jsonErrorCls)
  IN IF ~net.arrived
     THEN [self |-> self, res |-> Raised(Wrap(net.error)), sent |-> <<req>>]
     ELSE IF IsHTTPErrorStatus(net.status_code)
     THEN [self |-> self, res |-> Raised(Wrap(HTTPErrorOf(net))),
           sent |-> <<req>>]
     ELSE IF json.outcome = "raise"
     THEN [self |-> self, res |-> Raised(Wrap(json.exc)), sent |-> <<req>>]
     ELSE IF ~IsDict(json.value)
     THEN [self |-> self,
           res |-> Raised(ForeignExc("AttributeError",
                                     <<"object has no attribute 'get'">>)),
           sent |-> <<req>>]
     ELSE LET token == DictGet(json.value, "token")
              self2 == [self EXCEPT !.token = token]
          IN IF ~Truthy(token)
             THEN [self |-> self2,
                   res |-> Raised(AuthenticationError(
                             PyStr(<<"No token received from server">>),
                             PyInt(AuthenticationErrorStatus), PyNone)),
                   sent |-> <<req>>]
             ELSE [self |-> self2, res |-> Returned(PyNone), sent |-> <<req>>]

\* JWTAuth.get_auth_headers: logs in first when no token is held.
JWTGetAuthHeaders(self, net, jsonErrorCls) ==
  LET Headers(obj) ==
        [Authorization |-> PyStr(<<"Bearer ">> \o Str(obj.token))]
  IN IF ~Truthy(self.token)
     THEN LET a == _authenticate(self, net, jsonErrorCls)
          IN IF a.res.outcome = "raise" THEN a
             ELSE [self |-> a.self, res |-> Returned(Headers(a.self)),
                   sent |-> a.sent]
     ELSE [self |-> self, res |-> Returned(Headers(self)), sent |-> << >>]

\* JWTAuth.refresh_token
refresh_token(self, net, jsonErrorCls) == _authenticate(self, net, jsonErrorCls)

\* validate_token that lets a transport failure reach the caller.
validate_token_raising(self, net) ==
  IF ~Truthy(self.token)
  THEN [self |-> self, res |-> Returned(PyBool(FALSE)), sent |-> << >>]
  ELSE LET req == HttpRequest("requests", "POST",
                              self.base_url \o TokenPath
                                \o <<"/", "v", "a", "l", "i", "d", "a", "t", "e">>,
                              JWTGetAuthHeaders(self, net, "none").res.value,
                              PyNone, PyNone, PyNone)
       IN [self |-> self,
           res |-> IF net.arrived
                   THEN Returned(PyBool(net.status_code = 200))
                   ELSE Raised(net.error),
           sent |-> <<req>>]

\* JWTAuth.validate_token against the answer `net` of the validation
\* endpoint.  The token is held when get_auth_headers is called, so that call
\* sends nothing.
validate_token(self, net) ==
  IF ~Truthy(self.token)
  THEN [self |-> self, res |-> Returned(PyBool(FALSE)), sent |-> << >>]
  ELSE LET headers == JWTGetAuthHeaders(self, net, "none").res.value
           req == HttpRequest("requests", "POST",
                              self.base_url \o TokenPath
                                \o <<"/", "v", "a", "l", "i", "d", "a", "t", "e">>,
                              headers, PyNone, PyNone, PyNone)
       IN IF ~net.arrived
          THEN \* except requests.exceptions.RequestException: return False
               IF IsRequestException(net.error)
               THEN [self |-> self, res |-> Returned(PyBool(FALSE)),
                     sent |-> <<req>>]
               ELSE [self |-> self, res |-> Raised(net.error), sent |-> <<req>>]
          ELSE [self |-> self,
                res |-> Returned(PyBool(net.status_code = 200)),
                sent |-> <<req>>]

\* auth.get_auth_headers() of whichever authenticator the client holds.
get_auth_headers(self, net, jsonErrorCls) ==
  IF self.type = "JWTAuth" THEN JWTGetAuthHeaders(self, net, jsonErrorCls)
  ELSE [self |-> self, res |-> Returned(AppGetAuthHeaders(self)),
        sent |-> << >>]

\* ----------------------------------------------------------------- client.py
VARIABLES
  base_url,      \* WordPressClient.base_url
  timeout,       \* WordPressClient.timeout
  auth,          \* WordPressClient.auth: an authenticator object or None
  session,       \* WordPressClient.session.headers (the default headers)
  jsonErrorCls,  \* the class response.json() raises in this installation
  issued,        \* number of tokens the token endpoint has issued
  wire,          \* the HTTP requests sent by the last operation, in order
  result,        \* the last operation: its name, arguments and outcome
  callers        \* each concurrent caller of the authenticator: the call it
                 \* is in and the statement it is at

vars ==
  <<base_url, timeout, auth, session, jsonErrorCls, issued, wire, result,
    callers>>

DefaultTimeout == 30
MaxPerPage == 100

\* The client object as the methods see it.
Self == [base_url |-> base_url, timeout |-> timeout, auth |-> auth,
         session |-> session]

SiteUrl ==
  <<"h", "t", "t", "p", "s", ":", "/", "/", "w", "p", ".", "t", "e", "s", "t">>

\* StatusClass with the last branch moved down to 300: redirects and 304
\* answers are raised as errors.
StatusClass_from300(status_code) ==
  IF status_code = 401 THEN "AuthenticationError"
  ELSE IF status_code = 403 THEN "PermissionError"
  ELSE IF status_code = 404 THEN "NotFoundError"
  ELSE IF status_code = 400 THEN "ValidationError"
  ELSE IF status_code >= 300 THEN "WordPressAPIError"
  ELSE "none"

\* The five branches of _request on the status code: which exception class
\* the response is raised as, or "none" for a response that is returned.
StatusClass(status_code) ==
  IF status_code = 401 THEN "AuthenticationError"
  ELSE IF status_code = 403 THEN "PermissionError"
  ELSE IF status_code = 404 THEN "NotFoundError"
  ELSE IF status_code = 400 THEN "ValidationError"
  ELSE IF status_code >= 400 THEN "WordPressAPIError"
  ELSE "none"

\* One error branch of _request:
\*   error_msg = parse_wp_error(response.json() if response.text else {})
\*   raise Cls(error_msg, response.status_code, response.json())
\* The arguments are evaluated before the exception exists, so a failure of
\* either response.json() call is what leaves the branch.
RaiseForStatus(cls, resp, errCls) ==
  LET first == IF HasText(resp) THEN ResponseJson(resp, errCls)
               ELSE Returned(PyDict(EmptyMap))
      second == ResponseJson(resp, errCls)
  IN IF first.outcome = "raise" THEN first
     ELSE IF second.outcome = "raise" THEN second
     ELSE Raised(Exc(cls, parse_wp_error(first.value),
                     PyInt(resp.status_code), second.value))

\* The body of the try block of _request once the response is there.
HandleResponse(resp, errCls) ==
  IF StatusClass(resp.status_code) # "none"
  THEN RaiseForStatus(StatusClass(resp.status_code), resp, errCls)
  ELSE IF HasText(resp) THEN ResponseJson(resp, errCls)
  ELSE Returned(PyDict(EmptyMap))

\* RequestFailed without the except clause: the transport's exception leaves
\* _request as it is.
RequestFailed_uncaught(res) == res

\* except requests.exceptions.RequestException as e:
\*     raise WordPressAPIError(f"Request failed: {str(e)}")
RequestFailed(res) ==
  IF res.outcome = "raise" /\ IsRequestException(res.exc)
  THEN Raised(WordPressAPIError(
                PyStr(<<"Request failed: ">> \o Str(res.exc.message)),
                PyNone, PyNone))
  ELSE res

\* _request with a retry: a request the transport failed on is sent again.
_request_retry(self, method, endpoint, params, data, files, net, errCls) ==
  LET url == build_api_url(self.base_url, endpoint, params)
      req == HttpRequest("session", method, url, self.session,
                         IF Truthy(data) /\ ~Truthy(files) THEN data
                         ELSE PyNone,
                         files, PyInt(self.timeout))
      res == IF ~net.arrived THEN Raised(net.error)
             ELSE HandleResponse(net, errCls)
  IN [res |-> RequestFailed(res),
      sent |-> IF ~net.arrived THEN <<req, req>> ELSE <<req>>]

\* WordPressClient._request: the outcome and the requests sent, given what
\* the network does with the request.
_request(self, method, endpoint, params, data, files, net, errCls) ==
  LET url == build_api_url(self.base_url, endpoint, params)
      req == HttpRequest("session", method, url, self.session,
                         IF Truthy(data) /\ ~Truthy(files) THEN data
                         ELSE PyNone,
                         files, PyInt(self.timeout))
      res == IF ~net.arrived THEN Raised(net.error)
             ELSE HandleResponse(net, errCls)
  IN [res |-> RequestFailed(res),
      sent |-> <<req>>]

\* ------------------------------------------------------------------ models/
\* A pydantic model class: the type of each field, the fields with a default
\* other than None, and the fields that must be present.
PostSchema ==
  [id |-> "int", date |-> "str", date_gmt |-> "str", modified |-> "str",
   modified_gmt |-> "str", slug |-> "str", status |-> "str", type |-> "str",
   link |-> "str", title |-> "dict", content |-> "dict", excerpt |-> "dict",
   author |-> "int", featured_media |-> "int", comment_status |-> "str",
   ping_status |-> "str", sticky |-> "bool", template |-> "str",
   format |-> "str", categories |-> "list", tags |-> "list"]
PostDefaults ==
  [status |-> PyStr(<<"draft">>), type |-> PyStr(<<"post">>),
   featured_media |-> PyInt(0), comment_status |-> PyStr(<<"open">>),
   ping_status |-> PyStr(<<"open">>), sticky |-> PyBool(FALSE),
   template |-> PyStr(<< >>), format |-> PyStr(<<"standard">>),
   categories |-> PyList(<< >>), tags |-> PyList(<< >>)]

CategorySchema ==
  [id |-> "int", count |-> "int", description |-> "str", link |-> "str",
   name |-> "str", slug |-> "str", taxonomy |-> "str", parent |-> "int",
   meta |-> "list"]
CategoryDefaults ==
  [count |-> PyInt(0), description |-> PyStr(<< >>),
   taxonomy |-> PyStr(<<"category">>), parent |-> PyInt(0),
   meta |-> PyList(<< >>)]
\* name: Optional[str] = Field(description=...) has no default: required.
CategoryRequired == {"name"}

MediaSchema ==
  [id |-> "int", date |-> "str", date_gmt |-> "str", modified |-> "str",
   modified_gmt |-> "str", slug |-> "str", status |-> "str", type |-> "str",
   link |-> "str", title |-> "dict", author |-> "int", caption |-> "dict",
   alt_text |-> "str", media_type |-> "str", mime_type |-> "str",
   media_details |-> "dict", post |-> "int", source_url |-> "str"]
MediaDefaults ==
  [status |-> PyStr(<<"inherit">>), type |-> PyStr(<<"attachment">>),
   alt_text |-> PyStr(<< >>)]

\* pydantic's validation of one value against an Optional[t] annotation:
\* None passes, a value of the type passes, a numeric string passes for int.
FieldOk(v, t) ==
  \/ v.type = "None"
  \/ v.type = t
  \/ /\ t = "int"
     /\ v.type = "str"
     /\ v.s # << >>
     /\ \A i \in 1..Len(v.s) :
          v.s[i] \in {"0", "1", "2", "3", "4", "5", "6", "7", "8", "9"}

\* Cls(**data): a TypeError when data is not a mapping, a pydantic
\* ValidationError when a required field is missing or a value has the wrong
\* type, else the object, unknown keys ignored and defaults filled in.
Construct(cls, schema, defaults, required, data) ==
  IF ~IsDict(data)
  THEN Raised(ForeignExc("TypeError",
                         <<"argument after ** must be a mapping">>))
  ELSE IF \/ ~(required \subseteq DOMAIN data.fields)
          \/ \E k \in DOMAIN schema \cap DOMAIN data.fields :
               ~FieldOk(data.fields[k], schema[k])
  THEN Raised(ForeignExc("pydantic.ValidationError", <<"validation error">>))
  ELSE Returned([type |-> cls,
                 fields |-> [k \in DOMAIN schema |->
                               IF k \in DOMAIN data.fields THEN data.fields[k]
                               ELSE IF k \in DOMAIN defaults THEN defaults[k]
                               ELSE PyNone]])

Post(data) == Construct("Post", PostSchema, PostDefaults, {}, data)
Category(data) ==
  Construct("Category", CategorySchema, CategoryDefaults, CategoryRequired,
            data)
Media(data) ==
  Construct("Media", MediaSchema, MediaDefaults, {}, data)

MapOne(cls, data) ==
  CASE cls = "Post" -> Post(data)
    [] cls = "Category" -> Category(data)
    [] OTHER -> Media(data)

\* What `for x in data` yields: the items of a list, the keys of a dict.
IterItems(data) ==
  IF data.type = "list" THEN data.items
  ELSE LET keys == DOMAIN data.fields
           RECURSIVE SeqOf(_)
           SeqOf(ks) == IF ks = {} THEN << >>
                        ELSE LET k == CHOOSE x \in ks : TRUE
                             IN <<PyStr(<<k>>)>> \o SeqOf(ks \ {k})
       IN SeqOf(keys)

\* [Cls(**item) for item in data]: the first failure, else the list.
RECURSIVE MapItems(_, _)
MapItems(cls, items) ==
  IF items = << >> THEN Returned(PyList(<< >>))
  ELSE LET head == MapOne(cls, items[1])
           rest == MapItems(cls, Tail(items))
       IN IF head.outcome = "raise" THEN head
          ELSE IF rest.outcome = "raise" THEN rest
          ELSE Returned(PyList(<<head.value>> \o rest.value.items))

\* model.model_dump(exclude_none=True): the fields that are not None.
model_dump(obj) ==
  PyDict([k \in {f \in DOMAIN obj : obj[f].type # "None"} |-> obj[k]])

\* A PostCreate without defaults for format and sticky.
PostCreate_bare(title, content, status) ==
  [title |-> title, content |-> content, status |-> status,
   excerpt |-> PyNone, categories |-> PyNone, tags |-> PyNone,
   featured_media |-> PyNone, author |-> PyNone, slug |-> PyNone,
   format |-> PyNone, sticky |-> PyNone]

\* PostCreate(title, content, status, ...) with its defaults.
PostCreate(title, content, status) ==
  [title |-> title, content |-> content, status |-> status,
   excerpt |-> PyNone, categories |-> PyNone, tags |-> PyNone,
   featured_media |-> PyNone, author |-> PyNone, slug |-> PyNone,
   format |-> PyStr(<<"standard">>), sticky |-> PyBool(FALSE)]

PostUpdate(title, content, status) ==
  [title |-> title, content |-> content, status |-> status,
   excerpt |-> PyNone, categories |-> PyNone, tags |-> PyNone,
   featured_media |-> PyNone, slug |-> PyNone, format |-> PyNone,
   sticky |-> PyNone]

CategoryCreate(name, description) ==
  [name |-> name, description |-> description, slug |-> PyNone,
   parent |-> PyInt(0)]

CategoryUpdate(name, description) ==
  [name |-> name, description |-> description, slug |-> PyNone,
   parent |-> PyNone]

MediaUpdate(title, alt_text) ==
  [title |-> title, alt_text |-> alt_text, caption |-> PyNone,
   description |-> PyNone, post |-> PyNone]

\* ------------------------------------------------- client.py: the operations
InvalidResponseFormat ==
  WordPressAPIError(PyStr(<<"Invalid response format">>), PyNone, PyNone)

EpPosts == <<"w", "p", "/", "v", "2", "/", "p", "o", "s", "t", "s">>
EpCategories ==
  <<"w", "p", "/", "v", "2", "/", "c", "a", "t", "e", "g", "o", "r", "i",
    "e", "s">>
EpMedia == <<"w", "p", "/", "v", "2", "/", "m", "e", "d", "i", "a">>

\* f"{collection}/{id}"
ItemEndpoint(collection, id) == collection \o <<"/">> \o Digits(id)

\* ",".join(map(str, ids))
RECURSIVE JoinComma(_)
JoinComma(ids) ==
  IF ids = << >> THEN << >>
  ELSE IF Len(ids) = 1 THEN Str(ids[1])
  ELSE Str(ids[1]) \o <<",">> \o JoinComma(Tail(ids))

\* params = {"page": page, "per_page": min(per_page, 100)}
PageParams(page, per_page) ==
  << <<(<<"page">>), PyInt(page)>>,
     <<(<<"per_page">>),
       PyInt(IF per_page < MaxPerPage THEN per_page ELSE MaxPerPage)>> >>

\* if value: params[key] = value
IfTruthy(key, value) ==
  IF Truthy(value) THEN << <<(<<key>>), value>> >> ELSE << >>

\* A list operation that maps the first item only.
ListTail_firstOnly(cls, r) ==
  [res |-> IF r.res.outcome = "raise" THEN r.res
           ELSE LET items == IterItems(r.res.value)
                IN MapItems(cls, IF items = << >> THEN << >>
                                 ELSE <<items[1]>>),
   sent |-> r.sent]

\* The tail of a list operation: return [Cls(**item) for item in data]
ListTail(cls, r) ==
  [res |-> IF r.res.outcome = "raise" THEN r.res
           ELSE MapItems(cls, IterItems(r.res.value)),
   sent |-> r.sent]

\* As ItemTail, without the isinstance test: what is not an object is
\* handed back as it came.
ItemTail_unchecked(cls, r) ==
  [res |-> IF r.res.outcome = "raise" THEN r.res
           ELSE IF ~IsDict(r.res.value) THEN r.res
           ELSE MapOne(cls, r.res.value),
   sent |-> r.sent]

\* The tail of a single-item operation:
\*   if not isinstance(data, dict): raise WordPressAPIError(...)
\*   return Cls(**data)
ItemTail(cls, r) ==
  [res |-> IF r.res.outcome = "raise" THEN r.res
           ELSE IF ~IsDict(r.res.value) THEN Raised(InvalidResponseFormat)
           ELSE MapOne(cls, r.res.value),
   sent |-> r.sent]

\* The tail of a delete operation: the response object itself.
DeleteTail(r) ==
  [res |-> IF r.res.outcome = "raise" THEN r.res
           ELSE IF ~IsDict(r.res.value) THEN Raised(InvalidResponseFormat)
           ELSE r.res,
   sent |-> r.sent]

InvalidStatus(status) ==
  ValidationError(PyStr(<<"Invalid status: ">> \o Str(status)),
                  PyInt(ValidationErrorStatus), PyNone)

get_posts(self, page, per_page, search, status, categories, tags, net, errCls) ==
  LET params == PageParams(page, per_page)
                \o IfTruthy("search", search)
                \o IfTruthy("status", status)
                \o (IF Truthy(categories)
                    THEN << <<(<<"categories">>),
                              PyStr(JoinComma(categories.items))>> >>
                    ELSE << >>)
                \o (IF Truthy(tags)
                    THEN << <<(<<"tags">>), PyStr(JoinComma(tags.items))>> >>
                    ELSE << >>)
  IN ListTail("Post",
              _request(self, "GET", EpPosts, PyMapping(params), PyNone, PyNone, net,
                       errCls))

get_post(self, post_id, net, errCls) ==
  ItemTail("Post",
           _request(self, "GET", ItemEndpoint(EpPosts, post_id), PyNone,
                    PyNone, PyNone, net, errCls))

create_post(self, post, net, errCls) ==
  IF Truthy(post.status) /\ ~validate_status(post.status)
  THEN [res |-> Raised(InvalidStatus(post.status)), sent |-> << >>]
  ELSE ItemTail("Post",
                _request(self, "POST", EpPosts, PyNone, model_dump(post),
                         PyNone, net, errCls))

update_post(self, post_id, post, net, errCls) ==
  IF Truthy(post.status) /\ ~validate_status(post.status)
  THEN [res |-> Raised(InvalidStatus(post.status)), sent |-> << >>]
  ELSE ItemTail("Post",
                _request(self, "POST", ItemEndpoint(EpPosts, post_id), PyNone,
                         model_dump(post), PyNone, net, errCls))

\* The force flag sent only when it is set.
ForceParams_onlyTrue(force) ==
  IF force THEN PyMapping(<< <<(<<"force">>), PyBool(force)>> >>) ELSE PyNone

\* params = {"force": force}
ForceParams(force) == PyMapping(<< <<(<<"force">>), PyBool(force)>> >>)

delete_post(self, post_id, force, net, errCls) ==
  DeleteTail(_request(self, "DELETE", ItemEndpoint(EpPosts, post_id),
                      ForceParams(force), PyNone, PyNone, net, errCls))

get_categories(self, page, per_page, search, parent, net, errCls) ==
  LET params == PageParams(page, per_page)
                \o IfTruthy("search", search)
                \o (IF parent.type # "None"
                    THEN << <<(<<"parent">>), parent>> >> ELSE << >>)
  IN ListTail("Category",
              _request(self, "GET", EpCategories, PyMapping(params), PyNone, PyNone,
                       net, errCls))

get_category(self, category_id, net, errCls) ==
  ItemTail("Category",
           _request(self, "GET", ItemEndpoint(EpCategories, category_id),
                    PyNone, PyNone, PyNone, net, errCls))

create_category(self, category, net, errCls) ==
  ItemTail("Category",
           _request(self, "POST", EpCategories, PyNone, model_dump(category),
                    PyNone, net, errCls))

update_category(self, category_id, category, net, errCls) ==
  ItemTail("Category",
           _request(self, "POST", ItemEndpoint(EpCategories, category_id),
                    PyNone, model_dump(category), PyNone, net, errCls))

delete_category(self, category_id, force, net, errCls) ==
  DeleteTail(_request(self, "DELETE", ItemEndpoint(EpCategories, category_id),
                      ForceParams(force), PyNone, PyNone, net, errCls))

get_media(self, page, per_page, search, media_type, net, errCls) ==
  LET params == PageParams(page, per_page)
                \o IfTruthy("search", search)
                \o IfTruthy("media_type", media_type)
  IN ListTail("Media",
              _request(self, "GET", EpMedia, PyMapping(params), PyNone, PyNone, net,
                       errCls))

get_media_item(self, media_id, net, errCls) ==
  ItemTail("Media",
           _request(self, "GET", ItemEndpoint(EpMedia, media_id), PyNone,
                    PyNone, PyNone, net, errCls))

update_media(self, media_id, media, net, errCls) ==
  ItemTail("Media",
           _request(self, "POST", ItemEndpoint(EpMedia, media_id), PyNone,
                    model_dump(media), PyNone, net, errCls))

delete_media(self, media_id, force, net, errCls) ==
  DeleteTail(_request(self, "DELETE", ItemEndpoint(EpMedia, media_id),
                      ForceParams(force), PyNone, PyNone, net, errCls))

\* mimetypes.guess_type(name)[0], by the extension of the file name.
GuessType(name) ==
  IF name # << >> /\ name[Len(name)] = ".png" THEN PyStr(<<"image/png">>)
  ELSE IF name # << >> /\ name[Len(name)] = ".jpg" THEN PyStr(<<"image/jpeg">>)
  ELSE PyNone

\* except requests.exceptions.RequestException as e:
\*     raise WordPressAPIError(f"Media upload failed: {str(e)}")
UploadFailed(res) ==
  IF res.outcome = "raise" /\ IsRequestException(res.exc)
  THEN Raised(WordPressAPIError(
                PyStr(<<"Media upload failed: ">> \o Str(res.exc.message)),
                PyNone, PyNone))
  ELSE res

\* The try block of upload_media once the response is there:
\*   response.raise_for_status(); return Media(**response.json())
UploadResponse(resp, errCls) ==
  IF IsHTTPErrorStatus(resp.status_code) THEN Raised(HTTPErrorOf(resp))
  ELSE LET json == ResponseJson(resp, errCls)
       IN IF json.outcome = "raise" THEN json ELSE Media(json.value)

\* WordPressClient.upload_media.  `file` is the file system's answer for
\* file_path, `login` the token endpoint's answer should the authenticator
\* log in, `net` the answer to the upload itself.
upload_media(self, file, title, alt_text, caption, post_id, login, net, errCls) ==
  IF ~file.exists
  THEN [res |-> Raised(ValidationError(
                         PyStr(<<"File not found: ">> \o file.name),
                         PyInt(ValidationErrorStatus), PyNone)),
        sent |-> << >>, auth |-> self.auth]
  ELSE IF ~file.readable
  THEN [res |-> Raised(ForeignExc("OSError", <<"Permission denied">>)),
        sent |-> << >>, auth |-> self.auth]
  ELSE
    LET guessed == GuessType(file.name)
        mime_type == IF ~Truthy(guessed)
                     THEN PyStr(<<"application/octet-stream">>) ELSE guessed
        files == PyDict([file |-> PyList(<<PyStr(file.name), PyStr(<<"<f>">>),
                                          mime_type>>)])
        h == IF Truthy(self.auth) THEN get_auth_headers(self.auth, login, errCls)
             ELSE [self |-> self.auth, res |-> Returned(EmptyMap),
                   sent |-> << >>]
    IN IF h.res.outcome = "raise"
       THEN [res |-> h.res, sent |-> h.sent, auth |-> h.self]
       ELSE
         LET headers ==
               IF Truthy(title)
               THEN ("Content-Disposition" :>
                       PyStr(<<"attachment; filename=\"">> \o file.name
                             \o <<"\"">>)) @@ h.res.value
               ELSE h.res.value
             params == IfTruthy("alt_text", alt_text)
                       \o IfTruthy("caption", caption)
                       \o IfTruthy("title", title)
                       \o IfTruthy("post", post_id)
             url == build_api_url(self.base_url, EpMedia, PyMapping(params))
             req == HttpRequest("requests", "POST", url, headers, PyNone,
                                files, PyInt(self.timeout))
             res == IF ~net.arrived THEN Raised(net.error)
                    ELSE UploadResponse(net, errCls)
         IN [res |-> UploadFailed(res), sent |-> h.sent \o <<req>>,
             auth |-> h.self]

\* ------------------------------------------------------------------- inputs
PostObject ==
  PyDict([id |-> PyInt(42), status |-> PyStr(<<"draft">>),
          title |-> PyDict([rendered |-> PyStr(<<"Test Post">>)])])
CategoryObject == PyDict([id |-> PyInt(7), name |-> PyStr(<<"News">>)])

\* The status codes and bodies the request executor is tried on: every
\* branch on the status, and bodies with and without text, JSON or not.
Statuses == {200, 204, 304, 400, 401, 403, 404, 500}

ErrorBodies ==
  {PyDict([message |-> PyStr(<<"Invalid post ID.">>)]),
   PyDict([code |-> PyStr(<<"rest_forbidden">>),
           message |-> PyStr(<<"Sorry, you are not allowed.">>)]),
   PyDict([data |-> PyDict([message |-> PyStr(<<"nested">>)])]),
   PyList(<<PostObject>>)}

ConnectionRefused ==
  ForeignExc("requests.ConnectionError", <<"Connection refused">>)
ReadTimedOut == ForeignExc("requests.Timeout", <<"Read timed out">>)

TransportErrors == {ConnectionRefused, ReadTimedOut}

\* Everything the network does with a request of the executor.
NetAnswers ==
  {TransportError(e) : e \in TransportErrors}
  \cup {Response(s, EmptyText, PyNone) : s \in Statuses}
  \cup {Response(s, GarbageText, PyNone) : s \in Statuses}
  \cup {Response(s, JsonText, j) : s \in Statuses, j \in ErrorBodies}

\* The answers the resource operations are tried on: failures to send, error
\* statuses, and success statuses with every shape of body a mapper meets.
OpAnswers ==
  {TransportError(ConnectionRefused)}
  \cup {Response(s, EmptyText, PyNone) : s \in {204, 401, 500}}
  \cup {Response(s, JsonText,
                 PyDict([message |-> PyStr(<<"Invalid post ID.">>)])) :
          s \in {400, 401, 403, 404, 500}}
  \cup {Response(200, GarbageText, PyNone)}
  \cup {Response(200, JsonText, j) :
          j \in {PostObject, CategoryObject,
                 PyDict([deleted |-> PyBool(FALSE)]),
                 PyDict([id |-> PyStr(<<"abc">>)]),
                 PyList(<< >>),
                 PyList(<<PostObject>>),
                 PyList(<<PyDict([id |-> PyInt(43),
                                  status |-> PyStr(<<"publish">>)]),
                          PostObject>>),
                 PyList(<<CategoryObject, CategoryObject>>),
                 PyList(<<PyStr(<<"x">>)>>)}}
  \cup {Response(201, JsonText, PostObject)}

PreIssuedToken == PyStr(<<"pre-issued">>)

\* The n-th token of the token endpoint.
IssuedToken(n) == PyStr(<<"jwt-">> \o Digits(n))

\* Everything the token endpoint does with a login, after n tokens.
TokenAnswers(n) ==
  {TransportError(ConnectionRefused),
   Response(403, JsonText,
            PyDict([message |-> PyStr(<<"Invalid credentials">>)])),
   Response(200, JsonText, PyDict(EmptyMap)),
   Response(200, JsonText, PyList(<< >>)),
   Response(200, GarbageText, PyNone)}
  \cup (IF n < MaxIssued
        THEN {Response(200, JsonText, PyDict([token |-> IssuedToken(n + 1)]))}
        ELSE {})

\* Whether the token endpoint's answer hands out a new token.
Issues(net) ==
  /\ net.arrived
  /\ ~IsHTTPErrorStatus(net.status_code)
  /\ net.text = JsonText
  /\ IsDict(net.json)
  /\ Truthy(DictGet(net.json, "token"))

\* The authenticators a client is constructed with.
InitialAuths ==
  LET username == PyStr(<<"a">>)
      password == PyStr(<<"p", "w", " ", "1">>)
  IN {PyNone,
      AppAuthObject(username, password),
      JWTAuthObject(SiteUrl, username, password, PreIssuedToken)}

NoAnswer == [arrived |-> FALSE, error |-> PyNone]

\* A caller that is in no call of the authenticator.
Idle == [op |-> "none", at |-> "idle"]

\* ------------------------------------------------------------------ actions
\* WordPressClient.__init__(base_url, auth, username, password) with the
\* default timeout: the authenticator given, else one made of username and
\* password when both are given, else none.  The session headers are the
\* ones the constructor adds.
Init ==
  \E given \in InitialAuths,
     username \in {PyNone, PyStr(<<"a">>)},
     password \in {PyNone, PyStr(<<"p", "w", " ", "1">>)} :
    /\ Truthy(given) => username = PyNone /\ password = PyNone
    /\ base_url = RStripSlash(SiteUrl \o <<"/">>)
    /\ timeout = DefaultTimeout
    /\ auth = IF Truthy(given) THEN given
              ELSE IF Truthy(username) /\ Truthy(password)
              THEN AppAuthObject(username, password)
              ELSE PyNone
    /\ session = IF Truthy(auth)
                 THEN get_auth_headers(auth, NoAnswer, "none").res.value
                 ELSE EmptyMap
    /\ jsonErrorCls \in JSONDecodeErrorClasses
    /\ issued = 0
    /\ wire = << >>
    /\ result = [op |-> "__init__", args |-> <<given, username, password>>,
                 net |-> NoAnswer, res |-> Returned(PyNone)]
    /\ callers = [c \in 1..MaxCallers |-> Idle]

\* As Done, but the call empties the default headers of the session.
Done_clearsSession(op, args, net, r) ==
  /\ result' = [op |-> op, args |-> args, net |-> net, res |-> r.res]
  /\ wire' = r.sent
  /\ session' = EmptyMap
  /\ UNCHANGED <<base_url, timeout, auth, jsonErrorCls, issued, callers>>

\* An operation that goes through _request ends: its outcome and requests
\* are recorded, the client is as before.
Done(op, args, net, r) ==
  /\ result' = [op |-> op, args |-> args, net |-> net, res |-> r.res]
  /\ wire' = r.sent
  /\ UNCHANGED <<base_url, timeout, auth, session, jsonErrorCls, issued, callers>>

\* The argument lists _request is called with directly.
RequestCalls ==
  LET title == PyDict([title |-> PyStr(<<"Hello">>)])
      file == PyDict([file |-> PyStr(<<"<f>">>)])
  IN {<<"GET", <<"/">> \o EpPosts, PyMapping(PageParams(1, 10)), PyNone, PyNone>>,
      <<"POST", EpPosts, PyNone, title, PyNone>>,
      <<"POST", EpPosts, PyMapping(<< >>), PyDict(EmptyMap), PyNone>>,
      <<"POST", EpMedia, PyNone, title, file>>}

Request ==
  \E c \in RequestCalls, net \in NetAnswers :
    Done("_request", c, net,
         _request(Self, c[1], c[2], c[3], c[4], c[5], net, jsonErrorCls))

\* JWTAuth.refresh_token() on the client's authenticator.
RefreshToken ==
  /\ Truthy(auth)
  /\ auth.type = "JWTAuth"
  /\ \E net \in TokenAnswers(issued) :
       LET r == refresh_token(auth, net, jsonErrorCls)
       IN /\ result' = [op |-> "refresh_token", args |-> << >>, net |-> net,
                        res |-> r.res]
          /\ wire' = r.sent
          /\ auth' = r.self
          /\ issued' = IF Issues(net) THEN issued + 1 ELSE issued
          /\ UNCHANGED <<base_url, timeout, session, jsonErrorCls, callers>>

\* The request executor and the credential it shares with its callers.
Next ==
  \/ Request
  \/ RefreshToken

Spec == Init /\ [][Next]_vars

\* ----------------------------------------------- the resource operations
ItemIds == {5}

GetPosts ==
  \E search \in {PyNone, PyStr(<<"a", " ", "b">>)}, net \in OpAnswers :
    Done("get_posts", <<1, 150, search>>, net,
         get_posts(Self, 1, 150, search, PyNone,
                   PyList(<<PyInt(3), PyInt(4)>>), PyNone, net, jsonErrorCls))

GetPost ==
  \E id \in ItemIds, net \in OpAnswers :
    Done("get_post", <<id>>, net, get_post(Self, id, net, jsonErrorCls))

PostStatuses == {PyStr(<<"draft">>), PyStr(<<"bogus">>), PyStr(<< >>)}

CreatePost ==
  \E status \in PostStatuses, net \in OpAnswers :
    LET post == PostCreate(PyStr(<<"Hello">>), PyStr(<<"<p>World</p>">>),
                           status)
    IN Done("create_post", <<post>>, net,
            create_post(Self, post, net, jsonErrorCls))

UpdatePost ==
  \E status \in {PyNone, PyStr(<<"publish">>), PyStr(<<"bogus">>),
                  PyStr(<< >>)},
     net \in OpAnswers :
    LET post == PostUpdate(PyNone, PyNone, status)
    IN \E id \in ItemIds :
         Done("update_post", <<id, post>>, net,
              update_post(Self, id, post, net, jsonErrorCls))

DeletePost ==
  \E id \in ItemIds, force \in BOOLEAN, net \in OpAnswers :
    Done("delete_post", <<id, force>>, net,
         delete_post(Self, id, force, net, jsonErrorCls))

GetCategories ==
  \E parent \in {PyNone, PyInt(0)}, net \in OpAnswers :
    Done("get_categories", <<1, 10, parent>>, net,
         get_categories(Self, 1, 10, PyNone, parent, net, jsonErrorCls))

GetCategory ==
  \E id \in ItemIds, net \in OpAnswers :
    Done("get_category", <<id>>, net,
         get_category(Self, id, net, jsonErrorCls))

CreateCategory ==
  \E net \in OpAnswers :
    LET category == CategoryCreate(PyStr(<<"News">>), PyNone)
    IN Done("create_category", <<category>>, net,
            create_category(Self, category, net, jsonErrorCls))

UpdateCategory ==
  \E name \in {PyNone, PyStr(<<"News">>)}, net \in OpAnswers :
    LET category == CategoryUpdate(name, PyNone)
    IN \E id \in ItemIds :
         Done("update_category", <<id, category>>, net,
              update_category(Self, id, category, net, jsonErrorCls))

DeleteCategory ==
  \E id \in ItemIds, force \in BOOLEAN, net \in OpAnswers :
    Done("delete_category", <<id, force>>, net,
         delete_category(Self, id, force, net, jsonErrorCls))

GetMedia ==
  \E media_type \in {PyNone, PyStr(<<"image">>)}, net \in OpAnswers :
    Done("get_media", <<1, 10, media_type>>, net,
         get_media(Self, 1, 10, PyNone, media_type, net, jsonErrorCls))

GetMediaItem ==
  \E id \in ItemIds, net \in OpAnswers :
    Done("get_media_item", <<id>>, net,
         get_media_item(Self, id, net, jsonErrorCls))

UpdateMedia ==
  \E title \in {PyNone, PyStr(<<"Hello">>)}, net \in OpAnswers :
    LET media == MediaUpdate(title, PyNone)
    IN \E id \in ItemIds :
         Done("update_media", <<id, media>>, net,
              update_media(Self, id, media, net, jsonErrorCls))

DeleteMedia ==
  \E id \in ItemIds, force \in BOOLEAN, net \in OpAnswers :
    Done("delete_media", <<id, force>>, net,
         delete_media(Self, id, force, net, jsonErrorCls))

\* The argument lists upload_media is called with: what the file system
\* says about file_path, then title, alt_text, caption, post_id.
UploadCalls ==
  LET File(name, exists, readable) ==
        [name |-> name, exists |-> exists, readable |-> readable]
      missing == File(<<"missing", ".png">>, FALSE, FALSE)
      locked == File(<<"locked", ".png">>, TRUE, FALSE)
      photo == File(<<"photo", ".png">>, TRUE, TRUE)
      blob == File(<<"blob">>, TRUE, TRUE)
  IN {<<missing, PyNone, PyNone, PyNone, PyNone>>,
      <<locked, PyNone, PyNone, PyNone, PyNone>>,
      <<blob, PyNone, PyNone, PyNone, PyNone>>,
      <<photo, PyStr(<<"T">>), PyStr(<<"A">>), PyStr(<<"C">>), PyInt(7)>>,
      <<photo, PyStr(<<"T">>), PyNone, PyNone, PyInt(0)>>}

\* Whether upload_media makes the authenticator log in.
UploadLogsIn(file) ==
  /\ file.exists
  /\ file.readable
  /\ Truthy(auth)
  /\ auth.type = "JWTAuth"
  /\ ~Truthy(auth.token)

UploadMedia ==
  \E c \in UploadCalls, net \in OpAnswers :
    \E login \in IF UploadLogsIn(c[1]) THEN TokenAnswers(issued)
                 ELSE {NoAnswer} :
      LET r == upload_media(Self, c[1], c[2], c[3], c[4], c[5], login, net,
                            jsonErrorCls)
      IN /\ result' = [op |-> "upload_media", args |-> c, net |-> net,
                       res |-> r.res]
         /\ wire' = r.sent
         /\ auth' = r.auth
         /\ issued' = IF UploadLogsIn(c[1]) /\ Issues(login) THEN issued + 1
                      ELSE issued
         /\ UNCHANGED <<base_url, timeout, session, jsonErrorCls, callers>>

\* The public operations of the client, on a client as constructed.
NextOps ==
  \/ GetPosts
  \/ GetPost
  \/ CreatePost
  \/ UpdatePost
  \/ DeletePost
  \/ GetCategories
  \/ GetCategory
  \/ CreateCategory
  \/ UpdateCategory
  \/ DeleteCategory
  \/ GetMedia
  \/ GetMediaItem
  \/ UploadMedia
  \/ UpdateMedia
  \/ DeleteMedia

SpecOps == Init /\ [][NextOps]_vars

\* ------------------------------------------ ApplicationPasswordAuth alone
\* The texts of at most n characters, plain and accented.
Texts(n) == UNION {[1..k -> {"a", "e'"}] : k \in 0..n}

Admin == <<"a", "d", "m", "i", "n">>
AdminPassword ==
  <<"p", "w", " ", "1", "2", "3", "4", " ", "a", "b", "c", "d">>

\* The (username, app_password) pairs the constructor is tried on: absent,
\* empty and short values, and one realistic pair.
CredentialPairs ==
  LET values == {PyNone} \cup {PyStr(t) : t \in Texts(MaxCredLen)}
  IN (values \X values) \cup {<<PyStr(Admin), PyStr(AdminPassword)>>}

\* No authenticator exists yet.
InitAppAuth ==
  /\ base_url = RStripSlash(SiteUrl \o <<"/">>)
  /\ timeout = DefaultTimeout
  /\ auth = PyNone
  /\ session = EmptyMap
  /\ jsonErrorCls \in JSONDecodeErrorClasses
  /\ issued = 0
  /\ wire = << >>
  /\ result = [op |-> "none", args |-> << >>, net |-> NoAnswer,
               res |-> Returned(PyNone)]
  /\ callers = [c \in 1..MaxCallers |-> Idle]

\* ApplicationPasswordAuth(username, app_password): the fields are stored,
\* then validated; a failed construction leaves no object.
AppAuthInit ==
  \E c \in CredentialPairs :
    LET self == AppAuthObject(c[1], c[2])
        v == _validate_credentials(self)
    IN /\ auth' = IF v.outcome = "raise" THEN PyNone ELSE self
       /\ result' = [op |-> "ApplicationPasswordAuth", args |-> c,
                     net |-> NoAnswer, res |-> v]
       /\ wire' = << >>
       /\ UNCHANGED <<base_url, timeout, session, jsonErrorCls, issued, callers>>

\* auth.get_auth_headers() on the object constructed last.
AppAuthGetAuthHeaders ==
  /\ Truthy(auth)
  /\ result' = [op |-> "get_auth_headers", args |-> << >>, net |-> NoAnswer,
                res |-> Returned(AppGetAuthHeaders(auth))]
  /\ wire' = << >>
  /\ UNCHANGED <<base_url, timeout, auth, session, jsonErrorCls, issued, callers>>

NextAppAuth ==
  \/ AppAuthInit
  \/ AppAuthGetAuthHeaders

SpecAppAuth == InitAppAuth /\ [][NextAppAuth]_vars

\* --------------------------------------------------------- JWTAuth alone
\* Everything the token endpoint does with a login of a JWTAuth object: the
\* answers above, a token that is empty, and final responses whose status is
\* neither 2xx nor an error for raise_for_status.
LoginAnswers(n) ==
  TokenAnswers(n)
  \cup {Response(200, JsonText, PyDict([token |-> PyStr(<< >>)])),
        Response(500, EmptyText, PyNone),
        Response(304, EmptyText, PyNone),
        Response(300, JsonText, PyDict(EmptyMap))}
  \cup (IF n < MaxIssued
        THEN {Response(300, JsonText, PyDict([token |-> IssuedToken(n + 1)]))}
        ELSE {})

\* Everything the validation endpoint does with a token.
ValidateAnswers ==
  {TransportError(e) : e \in TransportErrors}
  \cup {Response(200, JsonText, PyDict([code |-> PyStr(<<"jwt_auth_valid_token">>)])),
        Response(200, EmptyText, PyNone),
        Response(201, EmptyText, PyNone),
        Response(204, EmptyText, PyNone),
        Response(403, JsonText,
                 PyDict([code |-> PyStr(<<"jwt_auth_invalid_token">>)])),
        Response(401, EmptyText, PyNone),
        Response(500, GarbageText, PyNone)}

\* A constructor that stores the fields and never logs in.
JWTAuthInit_lazy ==
  \E b \in {SiteUrl, SiteUrl \o <<"/">>},
     token \in {PyNone, PyStr(<< >>), PreIssuedToken} :
    \E net \in IF Truthy(token) THEN {NoAnswer} ELSE LoginAnswers(issued) :
      /\ auth' = JWTAuthObject(RStripSlash(b), PyStr(<<"a">>),
                               PyStr(<<"p", "w", " ", "1">>), token)
      /\ result' = [op |-> "JWTAuth", args |-> <<b, token>>, net |-> net,
                    res |-> Returned(PyNone)]
      /\ wire' = << >>
      /\ UNCHANGED <<base_url, timeout, session, jsonErrorCls, issued, callers>>

\* JWTAuth(base_url, username, password, token): the fields are stored, and
\* without a token the constructor logs in; a failed construction leaves no
\* object.
JWTAuthInit ==
  \E b \in {SiteUrl, SiteUrl \o <<"/">>},
     token \in {PyNone, PyStr(<< >>), PreIssuedToken} :
    \E net \in IF Truthy(token) THEN {NoAnswer} ELSE LoginAnswers(issued) :
      LET self == JWTAuthObject(RStripSlash(b), PyStr(<<"a">>),
                                PyStr(<<"p", "w", " ", "1">>), token)
          r == IF ~Truthy(token) THEN _authenticate(self, net, jsonErrorCls)
               ELSE [self |-> self, res |-> Returned(PyNone), sent |-> << >>]
      IN /\ auth' = IF r.res.outcome = "raise" THEN PyNone ELSE r.self
         /\ result' = [op |-> "JWTAuth", args |-> <<b, token>>, net |-> net,
                       res |-> r.res]
         /\ wire' = r.sent
         /\ issued' = IF r.sent # << >> /\ Issues(net) THEN issued + 1
                      ELSE issued
         /\ UNCHANGED <<base_url, timeout, session, jsonErrorCls, callers>>

\* auth.get_auth_headers() on the JWTAuth object.
JWTGetHeaders ==
  /\ Truthy(auth)
  /\ \E net \in IF Truthy(auth.token) THEN {NoAnswer}
                ELSE LoginAnswers(issued) :
       LET r == JWTGetAuthHeaders(auth, net, jsonErrorCls)
       IN /\ auth' = r.self
          /\ result' = [op |-> "get_auth_headers", args |-> << >>,
                        net |-> net, res |-> r.res]
          /\ wire' = r.sent
          /\ issued' = IF r.sent # << >> /\ Issues(net) THEN issued + 1
                       ELSE issued
          /\ UNCHANGED <<base_url, timeout, session, jsonErrorCls, callers>>

\* auth.validate_token() on the JWTAuth object.
JWTValidateToken ==
  /\ Truthy(auth)
  /\ \E net \in IF Truthy(auth.token) THEN ValidateAnswers ELSE {NoAnswer} :
       LET r == validate_token(auth, net)
       IN /\ auth' = r.self
          /\ result' = [op |-> "validate_token", args |-> << >>,
                        net |-> net, res |-> r.res]
          /\ wire' = r.sent
          /\ UNCHANGED <<base_url, timeout, session, jsonErrorCls, issued, callers>>

\* Sequential histories of one JWTAuth object.
NextJWT ==
  \/ JWTAuthInit
  \/ JWTGetHeaders
  \/ RefreshToken
  \/ JWTValidateToken

SpecJWT == InitAppAuth /\ [][NextJWT]_vars

\* ------------------------------------- one JWTAuth, concurrent callers
\* Callers share the JWTAuth object of the client.  A step is one statement
\* that reads or writes self.token; what lies between two such statements
\* touches nothing shared.
\* A caller enters get_auth_headers() or refresh_token().
CallerStart ==
  /\ Truthy(auth)
  /\ auth.type = "JWTAuth"
  /\ \E c \in 1..MaxCallers :
       /\ callers[c] = Idle
       /\ \E call \in {[op |-> "get_auth_headers", at |-> "check"],
                        [op |-> "refresh_token", at |-> "login"]} :
            callers' = [callers EXCEPT ![c] = call]
       /\ UNCHANGED <<base_url, timeout, auth, session, jsonErrorCls, issued,
                      wire, result>>

\* get_auth_headers: `if not self.token:`
CallerCheck ==
  \E c \in 1..MaxCallers :
    /\ callers[c].at = "check"
    /\ callers' = [callers EXCEPT
                     ![c].at = IF ~Truthy(auth.token) THEN "login"
                               ELSE "return"]
    /\ UNCHANGED <<base_url, timeout, auth, session, jsonErrorCls, issued,
                   wire, result>>

\* _authenticate up to `self.token = data.get("token")`: the request, and
\* either a failure that ends the call or the write of the token.
CallerLogin ==
  \E c \in 1..MaxCallers :
    /\ callers[c].at = "login"
    /\ \E net \in TokenAnswers(issued) :
         LET r == _authenticate(auth, net, jsonErrorCls)
             data == ResponseJson(net, jsonErrorCls)
             wrote == /\ net.arrived
                      /\ ~IsHTTPErrorStatus(net.status_code)
                      /\ data.outcome = "return"
                      /\ IsDict(data.value)
         IN /\ wire' = r.sent
            /\ issued' = IF Issues(net) THEN issued + 1 ELSE issued
            /\ IF wrote
               THEN /\ auth' = [auth EXCEPT
                                 !.token = DictGet(data.value, "token")]
                    /\ callers' = [callers EXCEPT ![c].at = "verify"]
                    /\ UNCHANGED result
               ELSE /\ callers' = [callers EXCEPT ![c] = Idle]
                    /\ result' = [op |-> callers[c].op, args |-> <<c>>,
                                  net |-> net, res |-> r.res]
                    /\ UNCHANGED auth
    /\ UNCHANGED <<base_url, timeout, session, jsonErrorCls>>

\* _authenticate: `if not self.token: raise AuthenticationError(...)`, and
\* the return of refresh_token.
CallerVerify ==
  \E c \in 1..MaxCallers :
    /\ callers[c].at = "verify"
    /\ IF ~Truthy(auth.token)
       THEN /\ callers' = [callers EXCEPT ![c] = Idle]
            /\ result' = [op |-> callers[c].op, args |-> <<c>>,
                          net |-> NoAnswer,
                          res |-> Raised(AuthenticationError(
                                    PyStr(<<"No token received from server">>),
                                    PyInt(AuthenticationErrorStatus), PyNone))]
       ELSE IF callers[c].op = "refresh_token"
       THEN /\ callers' = [callers EXCEPT ![c] = Idle]
            /\ result' = [op |-> "refresh_token", args |-> <<c>>,
                          net |-> NoAnswer, res |-> Returned(PyNone)]
       ELSE /\ callers' = [callers EXCEPT ![c].at = "return"]
            /\ UNCHANGED result
    /\ UNCHANGED <<base_url, timeout, auth, session, jsonErrorCls, issued,
                   wire>>

\* get_auth_headers: `return {"Authorization": f"Bearer {self.token}"}`
CallerReturn ==
  \E c \in 1..MaxCallers :
    /\ callers[c].at = "return"
    /\ callers' = [callers EXCEPT ![c] = Idle]
    /\ result' = [op |-> "get_auth_headers", args |-> <<c>>,
                  net |-> NoAnswer,
                  res |-> Returned([Authorization |->
                                      PyStr(<<"Bearer ">> \o Str(auth.token))])]
    /\ UNCHANGED <<base_url, timeout, auth, session, jsonErrorCls, issued,
                   wire>>

NextCallers ==
  \/ CallerStart
  \/ CallerCheck
  \/ CallerLogin
  \/ CallerVerify
  \/ CallerReturn

SpecCallers == Init /\ [][NextCallers]_vars

\* ------------------------------------------------------ the pure helpers
\* parse_wp_error(response_data) on every shape of parsed body: objects with
\* and without message, code and data (data an object or not), and values
\* that are not objects.
ParseWpError ==
  LET absent == [type |-> "absent"]
      Field(k, v) == IF v = absent THEN EmptyMap ELSE k :> v
      messages == {absent, PyNone, PyStr(<< >>), PyStr(<<"Invalid post ID.">>)}
      codes == {absent, PyStr(<<"rest_forbidden">>), PyInt(403)}
      datas == {absent, PyStr(<<"x">>), PyList(<< >>), PyDict(EmptyMap),
                PyDict([status |-> PyInt(403)]),
                PyDict([message |-> PyStr(<<"nested">>)])}
      bodies == {PyDict(Field("message", m) @@ Field("code", c)
                          @@ Field("data", d)) :
                   m \in messages, c \in codes, d \in datas}
                \cup {PyNone, PyInt(0), PyStr(<<"Forbidden">>),
                      PyList(<<PyStr(<<"message">>)>>)}
  IN \E response_data \in bodies :
       /\ result' = [op |-> "parse_wp_error", args |-> <<response_data>>,
                     net |-> NoAnswer,
                     res |-> Returned(parse_wp_error(response_data))]
       /\ wire' = << >>
       /\ UNCHANGED <<base_url, timeout, auth, session, jsonErrorCls, issued, callers>>

\* build_api_url(base_url, endpoint, params): bases with trailing slashes
\* and endpoints with leading slashes, with and without the discovery
\* prefix, under a few mappings; and every mapping of two keys on one URL.
BuildApiUrl ==
  LET Slashes(n) == [i \in 1..n |-> "/"]
      bases == {SiteUrl \o Slashes(n) : n \in 0..MaxSlashes}
      paths == {EpPosts, WpJson \o <<"/">> \o EpPosts,
                WpJson \o <<"a", "p", "i", "/", "v", "1", "/", "x">>}
      endpoints == {Slashes(n) \o e : n \in 0..MaxSlashes, e \in paths}
      absent == [type |-> "absent"]
      values == {absent, PyNone, PyStr(<< >>), PyStr(<<"a", "?", " ", "b">>),
                 PyInt(0), PyBool(FALSE)}
      Item(k, v) == IF v = absent THEN << >> ELSE << <<k, v>> >>
      mappings == {PyMapping(Item(<<"search">>, v) \o Item(<<"page">>, w)) :
                     v \in values, w \in values}
      calls == (bases \X endpoints
                  \X {PyNone, PyMapping(<< >>),
                      PyMapping(<< <<(<<"page">>), PyInt(2)>> >>)})
               \cup {<<SiteUrl, EpPosts, m>> : m \in {PyNone} \cup mappings}
  IN \E c \in calls :
       /\ result' = [op |-> "build_api_url", args |-> c, net |-> NoAnswer,
                     res |-> Returned(PyStr(build_api_url(c[1], c[2], c[3])))]
       /\ wire' = << >>
       /\ UNCHANGED <<base_url, timeout, auth, session, jsonErrorCls, issued, callers>>

NextUtils ==
  \/ ParseWpError
  \/ BuildApiUrl

SpecUtils == InitAppAuth /\ [][NextUtils]_vars

\* ================================================================== claims
\* The kind the error taxonomy fixes for a status code of 400 or more.
ExpectedKind(status_code) ==
  CASE status_code = 401 -> "AuthenticationError"
    [] status_code = 403 -> "PermissionError"
    [] status_code = 404 -> "NotFoundError"
    [] status_code = 400 -> "ValidationError"
    [] OTHER -> "WordPressAPIError"

\* The last operation was a call of _request that got a response.
RequestAnswered == result.op = "_request" /\ result.net.arrived

\* t occurs in s as a contiguous run of pieces.
Contains(s, t) ==
  \E i \in 1..(Len(s) - Len(t) + 1) : SubSeq(s, i, i + Len(t) - 1) = t

\* C1: whenever _request gets a response with status >= 400, whatever the
\* body (JSON, empty or not JSON), it raises the kind fixed by the status
\* alone: 401 Authentication, 403 Permission, 404 NotFound, 400 Validation,
\* any other the generic WordPressAPIError.
C1_KindFixedByStatus ==
  (RequestAnswered /\ result.net.status_code >= 400)
    => /\ result.res.outcome = "raise"
       /\ result.res.exc.cls = ExpectedKind(result.net.status_code)

\* C2: whenever _request gets a response with status >= 400 whose body is
\* empty or not JSON, the error raised carries the response's status code and
\* the placeholder message "Unknown error occurred"; no JSON decoding failure
\* takes its place.
C2_UnparsableBodyIsEmptyObject ==
  (/\ RequestAnswered
   /\ result.net.status_code >= 400
   /\ result.net.text \in {EmptyText, GarbageText})
    => /\ result.res.outcome = "raise"
       /\ result.res.exc.status_code = PyInt(result.net.status_code)
       /\ result.res.exc.message = PyStr(<<"Unknown error occurred">>)

\* C3 as claimed: whenever _request gets a response with status < 400 it
\* does not fail; it returns the parsed body when there is one and {} when
\* the body is empty.
C3_SuccessNeverFails ==
  (RequestAnswered /\ result.net.status_code < 400)
    => /\ result.res.outcome = "return"
       /\ result.res.value = IF result.net.text = EmptyText
                             THEN PyDict(EmptyMap) ELSE result.net.json

\* C3 as amended: whenever _request gets a response with status < 400 whose
\* body is empty or the text of a JSON value, it does not fail; it returns
\* the parsed JSON value when the body is non-empty and {} when it is empty.
C3_SuccessReturnsBody ==
  (/\ RequestAnswered
   /\ result.net.status_code < 400
   /\ result.net.text \in {EmptyText, JsonText})
    => /\ result.res.outcome = "return"
       /\ result.res.value = IF result.net.text = EmptyText
                             THEN PyDict(EmptyMap) ELSE result.net.json

\* A 304 answer without a body was returned as {}.
C3_Witness ==
  /\ RequestAnswered
  /\ result.net.status_code = 304
  /\ result.net.text = EmptyText
  /\ result.res = Returned(PyDict(EmptyMap))

\* C4: every call of _request sends exactly one HTTP request, through the
\* session and with the caller's method, whether it ends in a result, an
\* error status or a transport failure; there is no second send and no
\* authentication request.
C4_OneRequestPerCall ==
  result.op = "_request"
    => /\ Len(wire) = 1
       /\ wire[1].via = "session"
       /\ wire[1].method = result.args[1]

\* A call the transport failed on ended with one request sent.
C4_Witness ==
  /\ result.op = "_request"
  /\ ~result.net.arrived
  /\ result.res.outcome = "raise"
  /\ Len(wire) = 1

\* C5: when the transport fails in _request, the call raises the generic
\* WordPressAPIError, none of its four subclasses and not the transport's own
\* exception, with a message that contains the transport exception's text.
C5_TransportFailureIsGeneric ==
  (result.op = "_request" /\ ~result.net.arrived)
    => /\ result.res.outcome = "raise"
       /\ result.res.exc.cls = "WordPressAPIError"
       /\ result.res.exc.cls \notin RequestExceptionClasses
       /\ result.res.exc.message.type = "str"
       /\ Contains(result.res.exc.message.s, result.net.error.message.s)

\* A read timeout came out as the generic error.
C5_Witness ==
  /\ result.op = "_request"
  /\ result.net = TransportError(ReadTimedOut)
  /\ result.res.outcome = "raise"
  /\ result.res.exc.cls = "WordPressAPIError"
  /\ Contains(result.res.exc.message.s, <<"Read timed out">>)

\* The tokens the token endpoint has handed out so far.
ServerIssued == {IssuedToken(n) : n \in 1..issued}

\* C6: on a client built with a JWTAuth, once refresh_token() has replaced
\* the token by a newly issued one, every request _request sends carries
\* "Authorization: Bearer <the new token>".
C6_RequestsCarryRefreshedToken ==
  (/\ result.op = "_request"
   /\ auth.type = "JWTAuth"
   /\ auth.token \in ServerIssued)
    => \A i \in 1..Len(wire) :
         /\ "Authorization" \in DOMAIN wire[i].headers
         /\ wire[i].headers["Authorization"]
              = PyStr(<<"Bearer ">> \o auth.token.s)

\* C7: every failure of a public client operation reaches the caller as one
\* of the five kinds of the taxonomy; no other exception type escapes.
C7_OnlyTaxonomyKindsEscape ==
  (result.op # "__init__" /\ result.res.outcome = "raise")
    => result.res.exc.cls \in TaxonomyClasses

\* The upload was sent and the server answered it.
UploadAnswered ==
  /\ result.op = "upload_media"
  /\ result.args[1].exists
  /\ result.args[1].readable
  /\ result.net.arrived

\* C8: when upload_media gets a response with status >= 400, it raises the
\* kind fixed by the status, with the message of the server's error body,
\* never a wrapped transport-level exception.
C8_UploadErrorsAreClassified ==
  (UploadAnswered /\ result.net.status_code >= 400)
    => /\ result.res.outcome = "raise"
       /\ result.res.exc.cls = ExpectedKind(result.net.status_code)
       /\ (result.net.text = JsonText /\ IsDict(result.net.json)
           /\ "message" \in DOMAIN result.net.json.fields)
            => result.res.exc.message = result.net.json.fields["message"]

\* C9: constructing ApplicationPasswordAuth with an empty or absent username
\* or secret fails with a Validation-kind error, and nothing was sent.
C9_EmptyCredentialIsValidationError ==
  (/\ result.op = "ApplicationPasswordAuth"
   /\ (~Truthy(result.args[1]) \/ ~Truthy(result.args[2])))
    => /\ result.res.outcome = "raise"
       /\ result.res.exc.cls = "ValidationError"
       /\ wire = << >>

\* The UTF-8 bytes of the characters credentials are made of.
ExpectedUtf8(c) ==
  CASE c = "a" -> <<97>>
    [] c = "e'" -> <<195, 169>>
    [] c = " " -> <<32>>
    [] c = "1" -> <<49>>
    [] c = "2" -> <<50>>
    [] c = "3" -> <<51>>
    [] c = "4" -> <<52>>
    [] c = "b" -> <<98>>
    [] c = "c" -> <<99>>
    [] c = "d" -> <<100>>
    [] c = "i" -> <<105>>
    [] c = "m" -> <<109>>
    [] c = "n" -> <<110>>
    [] c = "p" -> <<112>>
    [] c = "w" -> <<119>>

RECURSIVE ExpectedBytes(_)
ExpectedBytes(s) ==
  IF s = << >> THEN << >> ELSE ExpectedUtf8(s[1]) \o ExpectedBytes(Tail(s))

\* The value of a base64 digit.
B64Value(c) == CHOOSE v \in 0..63 : B64Alphabet[v + 1] = c

\* Whether a text is canonical base64: groups of four digits, padding only
\* at the end of the last group and only over zero bits.
RECURSIVE IsBase64(_)
IsBase64(s) ==
  IF s = << >> THEN TRUE
  ELSE /\ Len(s) >= 4
       /\ s[1] # "=" /\ s[2] # "="
       /\ IF s[3] = "="
          THEN s[4] = "=" /\ Len(s) = 4 /\ B64Value(s[2]) % 16 = 0
          ELSE IF s[4] = "="
          THEN Len(s) = 4 /\ B64Value(s[3]) % 4 = 0
          ELSE IsBase64(SubSeq(s, 5, Len(s)))

\* The bytes a canonical base64 text stands for.
RECURSIVE B64Decode(_)
B64Decode(s) ==
  IF s = << >> THEN << >>
  ELSE LET v1 == B64Value(s[1])
           v2 == B64Value(s[2])
           b1 == v1 * 4 + (v2 \div 16)
       IN IF s[3] = "=" THEN <<b1>>
          ELSE LET v3 == B64Value(s[3])
                   b2 == (v2 % 16) * 16 + (v3 \div 4)
               IN IF s[4] = "=" THEN <<b1, b2>>
                  ELSE <<b1, b2, (v3 % 4) * 64 + B64Value(s[4])>>
                       \o B64Decode(SubSeq(s, 5, Len(s)))

\* What get_auth_headers returned is the Basic header of the object's
\* credentials, and nothing was sent.
C10_HeaderOfCredentials ==
  result.op = "get_auth_headers"
    => /\ result.res.outcome = "return"
       /\ DOMAIN result.res.value = {"Authorization"}
       /\ wire = << >>
       /\ LET value == result.res.value["Authorization"].s
          IN /\ value # << >>
             /\ value[1] = "Basic "
             /\ IsBase64(Tail(value))
             /\ B64Decode(Tail(value))
                  = ExpectedBytes(auth.username.s) \o <<58>>
                    \o ExpectedBytes(auth.app_password.s)

\* C10: get_auth_headers of ApplicationPasswordAuth(username, secret)
\* returns exactly one entry, Authorization = "Basic " followed by the base64
\* text of username ":" secret; the call sends nothing and leaves the object
\* as it was, so every further call returns the same value.
C10_BasicHeaderIsPure ==
  /\ []C10_HeaderOfCredentials
  /\ [][result'.op = "get_auth_headers" => (auth' = auth /\ wire' = << >>)]_vars

\* The header of ("admin", "pw 1234 abcd") was returned.
C10_Witness ==
  /\ result.op = "get_auth_headers"
  /\ auth.username = PyStr(Admin)
  /\ auth.app_password = PyStr(AdminPassword)
  /\ result.res.value["Authorization"]
       = PyStr(<<"Basic ", "Y", "W", "R", "t", "a", "W", "4", "6", "c", "H",
                 "c", "g", "M", "T", "I", "z", "N", "C", "B", "h", "Y", "m",
                 "N", "k">>)

\* The last operation constructed a JWTAuth without a usable token, so it
\* logged in.
ConstructedByLogin == result.op = "JWTAuth" /\ ~Truthy(result.args[2])

\* The login request of a JWTAuth object: one POST of the credentials to the
\* token endpoint of the site.
IsLoginRequest(req) ==
  /\ req.method = "POST"
  /\ req.url = SiteUrl \o TokenPath
  /\ req.json = PyDict([username |-> PyStr(<<"a">>),
                        password |-> PyStr(<<"p", "w", " ", "1">>)])

\* The answer to a login is a JSON object without a token field.
NoTokenField(net) ==
  /\ net.arrived
  /\ net.text = JsonText
  /\ IsDict(net.json)
  /\ "token" \notin DOMAIN net.json.fields

\* The construction failed with the Authentication kind and left no object.
FailedAsAuthentication ==
  /\ result.res.outcome = "raise"
  /\ result.res.exc.cls = "AuthenticationError"
  /\ auth = PyNone

C12_HeaderOfAHeldTokenOrAuthenticationError ==
  result.op = "get_auth_headers"
    => \/ /\ result.res.outcome = "return"
          /\ auth.token \in ServerIssued \cup {PreIssuedToken}
          /\ Truthy(auth.token)
          /\ result.res.value
               = [Authorization |-> PyStr(<<"Bearer ">> \o auth.token.s)]
          /\ wire # << >>
               => /\ Len(wire) = 1
                  /\ IsLoginRequest(wire[1])
                  /\ auth.token = DictGet(result.net.json, "token")
       \/ /\ result.res.outcome = "raise"
          /\ result.res.exc.cls = "AuthenticationError"

\* The last operation was validate_token on an object that holds a token.
ValidatedHeldToken ==
  /\ result.op = "validate_token"
  /\ Truthy(auth.token)

C14_MessageFirstThenNestedThenPlaceholder ==
  result.op = "parse_wp_error"
    => LET body == result.args[1]
           Has(d, k) == IsDict(d) /\ k \in DOMAIN d.fields
           returned == result.res.value
       IN /\ result.res.outcome = "return"
          /\ IF Has(body, "message")
             THEN /\ returned = body.fields["message"]
                  /\ Has(body, "code")
                       => returned # PyStr(Str(body.fields["code"]) \o <<": ">>
                                           \o Str(body.fields["message"]))
             ELSE IF Has(body, "data") /\ Has(body.fields["data"], "message")
             THEN returned = body.fields["data"].fields["message"]
             ELSE returned = PyStr(<<"Unknown error occurred">>)

\* A body with code, message and a data object that has its own message gave
\* the top-level message.
C14_Witness ==
  /\ result.op = "parse_wp_error"
  /\ result.args[1]
       = PyDict([code |-> PyStr(<<"rest_forbidden">>),
                 message |-> PyStr(<<"Invalid post ID.">>),
                 data |-> PyDict([message |-> PyStr(<<"nested">>)])])
  /\ result.res = Returned(PyStr(<<"Invalid post ID.">>))

\* C15: for every base URL, with any number of trailing slashes, and every
\* endpoint, with any number of leading slashes, the URL build_api_url
\* returns has exactly one slash between base and endpoint, and the segment
\* "wp-json/" occurs in it exactly once, right after that slash: prepended
\* when the endpoint lacks it, not duplicated when the endpoint has it.
C15_OneSlashAndOneDiscoverySegment ==
  result.op = "build_api_url"
    => LET url == result.res.value.s
           segment == WpJson \o <<"/">>
           first == Len(SiteUrl) + 2
       IN /\ RStripSlash(result.args[1]) = SiteUrl
          /\ StartsWith(url, SiteUrl \o <<"/">>)
          /\ url[first] # "/"
          /\ \A i \in 1..(Len(url) - Len(segment) + 1) :
               SubSeq(url, i, i + Len(segment) - 1) = segment <=> i = first

\* The items of the mapping build_api_url was called with (none for a
\* missing mapping).
UrlItems ==
  IF result.args[3] = PyNone THEN << >> ELSE result.args[3].items

\* C16: the URL build_api_url returns contains "?" if and only if at least
\* one query parameter has a value other than None: none for a missing
\* mapping, an empty mapping, or a mapping whose every value is None; and no
\* key whose value is None appears in the URL.
C16_QueryIffSomeValuePresent ==
  result.op = "build_api_url"
    => LET url == result.res.value.s
       IN /\ Contains(url, <<"?">>)
               <=> \E i \in 1..Len(UrlItems) : UrlItems[i][2] # PyNone
          /\ \A i \in 1..Len(UrlItems) :
               UrlItems[i][2] = PyNone => ~Contains(url, UrlItems[i][1])

\* A mapping with one absent and one present value gave a URL with a query
\* string that names the present key only.
C16_Witness ==
  /\ result.op = "build_api_url"
  /\ UrlItems = << <<(<<"search">>), PyNone>>, <<(<<"page">>), PyInt(0)>> >>
  /\ result.res.value.s
       = SiteUrl \o <<"/">> \o WpJson \o <<"/">> \o EpPosts
           \o <<"?", "page", "=", "0">>

\* C17 as stated: a query parameter whose value is the empty string is left
\* out of the URL like an absent one: its key does not appear.
C17_EmptyValueIsOmitted ==
  result.op = "build_api_url"
    => \A i \in 1..Len(UrlItems) :
         UrlItems[i][2] = PyStr(<< >>)
           => ~Contains(result.res.value.s, UrlItems[i][1])

\* C17 amended: a query parameter whose value is the empty string is kept:
\* the URL has "key=" with nothing after the "=" but the next parameter or
\* the end of the URL.
C17_EmptyValueIsKept ==
  result.op = "build_api_url"
    => LET url == result.res.value.s
       IN \A i \in 1..Len(UrlItems) :
            UrlItems[i][2] = PyStr(<< >>)
              => \E j \in 1..(Len(url) - 1) :
                   /\ url[j] = UrlItems[i][1][1]
                   /\ url[j + 1] = "="
                   /\ j + 1 = Len(url) \/ url[j + 2] = "&"
                   /\ url[j - 1] \in {"?", "&"}

\* A mapping whose only value is the empty string gave "?search=".
C17_Witness ==
  /\ result.op = "build_api_url"
  /\ UrlItems = << <<(<<"search">>), PyStr(<< >>)>> >>
  /\ result.res.value.s
       = SiteUrl \o <<"/">> \o WpJson \o <<"/">> \o EpPosts
           \o <<"?", "search", "=">>

\* The last operation was create_post with a PostCreate of title, content
\* and the status "draft", nothing else set.
CreatedDraft ==
  /\ result.op = "create_post"
  /\ result.args[1].status = PyStr(<<"draft">>)

\* The one request create_post sent is a POST to <site>/wp-json/wp/v2/posts.
PostedToPosts ==
  /\ Len(wire) = 1
  /\ wire[1].method = "POST"
  /\ wire[1].url = SiteUrl \o <<"/">> \o WpJson \o <<"/">> \o EpPosts

\* Answered 201 with the post of id 42, create_post returned a Post of id 42
\* and status "draft".
Returned42 ==
  (/\ result.net.arrived
   /\ result.net.status_code = 201
   /\ result.net.json = PostObject)
    => /\ result.res.outcome = "return"
       /\ result.res.value.type = "Post"
       /\ result.res.value.fields["id"] = PyInt(42)
       /\ result.res.value.fields["status"] = PyStr(<<"draft">>)

\* C18 as stated: create_post with a PostCreate that sets only title,
\* content and status sends one POST to <site>/wp-json/wp/v2/posts whose
\* JSON body has exactly the keys title, content and status with the caller's
\* values; answered 201 with id 42 it returns a Post of id 42 and status
\* "draft".
C18_BodyHasExactlyThreeKeys ==
  CreatedDraft
    => /\ PostedToPosts
       /\ wire[1].json = PyDict([title |-> result.args[1].title,
                                 content |-> result.args[1].content,
                                 status |-> result.args[1].status])
       /\ Returned42

\* C18 amended: the JSON body has the caller's title, content and status
\* and also the defaults of PostCreate that are not None, format "standard"
\* and sticky false: exactly these five keys.
C18_BodyHasTheDefaultsToo ==
  CreatedDraft
    => /\ PostedToPosts
       /\ wire[1].json = PyDict([title |-> result.args[1].title,
                                 content |-> result.args[1].content,
                                 status |-> result.args[1].status,
                                 format |-> PyStr(<<"standard">>),
                                 sticky |-> PyBool(FALSE)])
       /\ Returned42

\* A draft was created and the server answered 201 with the post of id 42.
C18_Witness ==
  /\ CreatedDraft
  /\ result.net.arrived
  /\ result.net.status_code = 201
  /\ result.res.outcome = "return"
  /\ result.res.value.fields["id"] = PyInt(42)
  /\ DOMAIN wire[1].json.fields
       = {"title", "content", "status", "format", "sticky"}

\* C19: delete_post, delete_category and delete_media send exactly one
\* request, a DELETE to the item path with the force flag as a query
\* parameter, for force false as for force true, and on a success response
\* that carries a JSON object they return that object unmodified.
C19_OneDeleteWithForceReturnsObject ==
  result.op \in {"delete_post", "delete_category", "delete_media"}
    => LET collection == CASE result.op = "delete_post" -> EpPosts
                           [] result.op = "delete_category" -> EpCategories
                           [] OTHER -> EpMedia
           flag == IF result.args[2] THEN <<"T", "r", "u", "e">>
                   ELSE <<"F", "a", "l", "s", "e">>
       IN /\ Len(wire) = 1
          /\ wire[1].method = "DELETE"
          /\ wire[1].url
               = SiteUrl \o <<"/">> \o WpJson \o <<"/">> \o collection
                   \o <<"/">> \o Digits(result.args[1])
                   \o <<"?", "force", "=">> \o flag
          /\ wire[1].json = PyNone
          /\ (/\ result.net.arrived
              /\ result.net.status_code < 400
              /\ result.net.text = JsonText
              /\ IsDict(result.net.json))
               => result.res = Returned(result.net.json)

\* A delete_media without force got the server's object back.
C19_Witness ==
  /\ result.op = "delete_media"
  /\ result.args[2] = FALSE
  /\ Len(wire) = 1
  /\ result.net.arrived
  /\ result.res = Returned(PyDict([deleted |-> PyBool(FALSE)]))

\* C20: malformed local input is rejected with ValidationError before any
\* request is sent: create_post and update_post with a status that is not
\* one of publish, future, draft, pending, private, trash (the empty string
\* included), and upload_media with a file path that does not exist.
C20_MalformedInputSendsNothing ==
  LET post == IF result.op = "create_post" THEN result.args[1]
              ELSE result.args[2]
      Rejected == /\ result.res.outcome = "raise"
                  /\ result.res.exc.cls = "ValidationError"
                  /\ wire = << >>
  IN /\ (/\ result.op \in {"create_post", "update_post"}
         /\ post.status # PyNone
         /\ post.status.s \notin {<<"publish">>, <<"future">>, <<"draft">>,
                                  <<"pending">>, <<"private">>, <<"trash">>})
          => Rejected
     /\ (result.op = "upload_media" /\ ~result.args[1].exists) => Rejected

\* C21: constructing WordPressClient with a base URL and no credentials (no
\* auth object, no username, no password) fails with ValueError, and no
\* client without an authenticator comes to exist.
C21_NoCredentialsIsValueError ==
  (/\ result.op = "__init__"
   /\ result.args = <<PyNone, PyNone, PyNone>>)
    => /\ result.res.outcome = "raise"
       /\ result.res.exc.cls = "ValueError"
       /\ Truthy(auth)

\* C22: every error _request raises for a response with status >= 400 is of
\* the root kind WordPressAPIError or one of its four subclasses, and carries
\* a message, a status code equal to the response's status, and the parsed
\* payload of a JSON body.
C22_ErrorsCarryStatusAndPayload ==
  (RequestAnswered /\ result.net.status_code >= 400)
    => /\ result.res.outcome = "raise"
       /\ result.res.exc.cls \in TaxonomyClasses
       /\ result.res.exc.message.type = "str"
       /\ result.res.exc.status_code = PyInt(result.net.status_code)
       /\ result.net.text = JsonText
            => result.res.exc.response = result.net.json

\* The last operation was get_posts and the server answered with success and
\* a JSON array of post objects (objects whose id is a number).
GotPostArray ==
  /\ result.op = "get_posts"
  /\ result.net.arrived
  /\ result.net.status_code < 400
  /\ result.net.text = JsonText
  /\ result.net.json.type = "list"
  /\ \A i \in 1..Len(result.net.json.items) :
       LET e == result.net.json.items[i]
       IN IsDict(e) /\ "id" \in DOMAIN e.fields /\ e.fields["id"].type = "int"

C24_RequestsCarryTheAuthenticatorsHeader ==
  result.op \notin {"__init__", "refresh_token"}
    => \A i \in 1..Len(wire) :
         IF Truthy(auth)
         THEN /\ "Authorization" \in DOMAIN wire[i].headers
              /\ (auth.type = "JWTAuth" /\ Truthy(auth.token))
                   => wire[i].headers["Authorization"]
                        = PyStr(<<"Bearer ">> \o auth.token.s)
              /\ auth.type = "ApplicationPasswordAuth"
                   => wire[i].headers["Authorization"]
                        = AppGetAuthHeaders(auth).Authorization
         ELSE "Authorization" \notin DOMAIN wire[i].headers

\* C25: for every request _request sends: when a body is supplied and no
\* attachment, the request carries that body as JSON, also when the body is
\* an object without fields; when an attachment is supplied the request
\* carries no JSON body; no request carries both.
C25_BodyIsSentUnlessAttached ==
  result.op = "_request"
    => LET data == result.args[4]
           files == result.args[5]
       IN \A i \in 1..Len(wire) :
            /\ (data # PyNone /\ files = PyNone) => wire[i].json = data
            /\ files # PyNone
                 => wire[i].json = PyNone /\ wire[i].files = files
            /\ wire[i].json = PyNone \/ wire[i].files = PyNone

\* C26: upload_media sends the file as an attachment with its file name and
\* its detected MIME type (application/octet-stream when none is detected)
\* and no JSON body, and every supplied metadata value (title, alt text,
\* caption, associated post id) is a query parameter of the upload URL; a
\* supplied post id is never dropped.
C26_MetadataTravelsInTheQuery ==
  (/\ result.op = "upload_media"
   /\ result.args[1].exists
   /\ result.args[1].readable)
    => LET file == result.args[1]
           upload == wire[Len(wire)]
           InQuery(key, value) ==
             value # PyNone
               => Contains(upload.url, <<key, "=">> \o QuotePlus(Str(value)))
       IN /\ wire # << >>
          /\ upload.method = "POST"
          /\ upload.json = PyNone
          /\ upload.files.fields["file"].items[1] = PyStr(file.name)
          /\ upload.files.fields["file"].items[3]
               = IF file.name[Len(file.name)] = ".png"
                 THEN PyStr(<<"image/png">>)
                 ELSE PyStr(<<"application/octet-stream">>)
          /\ InQuery("title", result.args[2])
          /\ InQuery("alt_text", result.args[3])
          /\ InQuery("caption", result.args[4])
          /\ InQuery("post", result.args[5])

\* C27: under every interleaving of get_auth_headers and refresh_token calls
\* of several callers on one JWTAuth, every get_auth_headers that returns
\* yields "Bearer <token>" for a non-empty token that the server issued or
\* the constructor was given; none returns a header of an absent token.
C27_ConcurrentHeadersBearAToken ==
  (result.op = "get_auth_headers" /\ result.res.outcome = "return")
    => \E token \in ServerIssued \cup {PreIssuedToken} :
         /\ Truthy(token)
         /\ result.res.value
              = [Authorization |-> PyStr(<<"Bearer ">> \o token.s)]

C29_FailedRefreshKeepsTheToken ==
  [][(/\ result'.op = "refresh_token"
      /\ result'.res.outcome = "raise"
      /\ result'.res.exc.cls = "AuthenticationError")
       => /\ auth'.token = auth.token
          /\ LET next == JWTGetAuthHeaders(auth', NoAnswer, jsonErrorCls)
             IN /\ next.sent = << >>
                /\ next.res = Returned([Authorization |->
                                 PyStr(<<"Bearer ">> \o Str(auth.token))])]_vars

\* The operations on one item that go through _request.
SingleItemOps ==
  {"get_post", "create_post", "update_post", "delete_post",
   "get_category", "create_category", "update_category", "delete_category",
   "get_media_item", "update_media", "delete_media"}

\* The last operation was one on a single item, its request was sent and
\* answered with success and a JSON array.
GotArrayForItem ==
  /\ result.op \in SingleItemOps
  /\ wire # << >>
  /\ result.net.arrived
  /\ result.net.status_code < 400
  /\ result.net.text = JsonText
  /\ result.net.json.type = "list"

\* C30: every single-item operation that gets a success response whose JSON
\* value is an array raises the generic WordPressAPIError "Invalid response
\* format", without status code or payload, and returns nothing.
C30_ArrayForItemIsInvalidFormat ==
  GotArrayForItem => result.res = Raised(InvalidResponseFormat)

\* update_post was answered 200 with an array holding one post object and
\* raised.
C30_Witness ==
  /\ GotArrayForItem
  /\ result.op = "update_post"
  /\ result.net.json = PyList(<<PostObject>>)
  /\ result.res.outcome = "raise"

====
